---- MODULE Spec2Model ----
(***************************************************************************)
(* Model of src/tautulli/mod.rs: get_item_watches fetches the watch        *)
(* history of one item, keeps the latest watch of every user and projects  *)
(* it into a WatchHistory::Movie or WatchHistory::TvShow.                  *)
(*                                                                         *)
(* An i64 is kept at its full width: it is a tuple of four 16-bit limbs,   *)
(* least significant first, in two's complement.  A String is the tuple of *)
(* its bytes, so that String's Ord is the lexicographic order of tuples.   *)
(***************************************************************************)
EXTENDS Integers, Sequences, FiniteSets, TLC

\* Longest history page the model fetches.
MaxEvents == 3

-----------------------------------------------------------------------------
(* Option<T>, and the outcome of an evaluation that may panic.             *)

None == <<>>
Some(x) == <<x>>
IsSome(o) == Len(o) = 1

Value(v) == [tag |-> "Value", val |-> v]
\* A panic carries its message and the line of mod.rs it was raised at.
Panic(m, line) == [tag |-> "Panic", msg |-> m, line |-> line]

\* format!("Failed to parse unix time for rating key {}", rating_key)
ExpectMessage(rating_key) == <<"Failed to parse unix time for rating key ", rating_key>>
UnwrapNoneMessage == <<"called Option::unwrap() on a None value">>
MulOverflowMessage == <<"attempt to multiply with overflow">>

\* Option::expect: the value of a Some, a panic with the message otherwise.
Expect(o, m, line) == IF IsSome(o) THEN Value(o[1]) ELSE Panic(m, line)
\* Option::unwrap
Unwrap(o, line) == IF IsSome(o) THEN Value(o[1]) ELSE Panic(UnwrapNoneMessage, line)

-----------------------------------------------------------------------------
(* i64 arithmetic on limbs.                                                *)

LimbBase == 2^16
Limbs == 4

IsNegative(x) == x[Limbs] >= LimbBase \div 2
SignLimb(x) == IF IsNegative(x) THEN LimbBase - 1 ELSE 0

\* The i64 of a small natural number.
I64(n) == <<n % LimbBase, n \div LimbBase, 0, 0>>

\* a < b on i64
I64Lt(a, b) ==
    IF IsNegative(a) /= IsNegative(b) THEN IsNegative(a)
    ELSE \E i \in 1..Limbs :
            /\ a[i] < b[i]
            /\ \A j \in (i+1)..Limbs : a[j] = b[j]

I64Le(a, b) == a = b \/ I64Lt(a, b)

\* The exact product x * k, k a small natural number, on five limbs: x is
\* sign-extended by one limb, which holds every product of an i64 by 1000.
WideMul(x, k) ==
    LET p1 == x[1] * k
        p2 == x[2] * k + p1 \div LimbBase
        p3 == x[3] * k + p2 \div LimbBase
        p4 == x[4] * k + p3 \div LimbBase
        p5 == SignLimb(x) * k + p4 \div LimbBase
    IN  <<p1 % LimbBase, p2 % LimbBase, p3 % LimbBase, p4 % LimbBase, p5 % LimbBase>>

\* The low 64 bits of a wide product: what a wrapping multiplication leaves.
Low64(w) == <<w[1], w[2], w[3], w[4]>>

\* The product does not fit an i64.
MulOverflows(x, k) == WideMul(x, k)[5] /= SignLimb(Low64(WideMul(x, k)))

-----------------------------------------------------------------------------
(* chrono                                                                   *)

MillisPerSecond == 1000

\* NaiveDateTime is kept as its count of milliseconds since the epoch.
\* -262144-01-01T00:00:00.000 = -8334632937600000 ms
MinNaiveMillis == <<52224, 3179, 25522, 65506>>
\* +262143-12-31T23:59:59.999 = 8210298412799999 ms
MaxNaiveMillis == <<6143, 4197, 11065, 29>>

\* NaiveDateTime::from_timestamp_millis
from_timestamp_millis(millis) ==
    IF I64Le(MinNaiveMillis, millis) /\ I64Le(millis, MaxNaiveMillis)
    THEN Some(millis)
    ELSE None

\* unix_seconds * 1000: a panic where the build checks overflow, the wrapped
\* product where it does not.
MulSeconds(unix_seconds, overflow_checks) ==
    IF MulOverflows(unix_seconds, MillisPerSecond) /\ overflow_checks
    THEN Panic(MulOverflowMessage, 157)
    ELSE Value(Low64(WideMul(unix_seconds, MillisPerSecond)))

\* fn unix_seconds_to_date(unix_seconds: i64) -> Option<DateTime<Utc>>
\* The result is the outcome of evaluating the call: a panic, or the Option.
unix_seconds_to_date(unix_seconds, overflow_checks) ==
    LET product == MulSeconds(unix_seconds, overflow_checks) IN
    IF product.tag = "Panic" THEN product
    ELSE LET naive_date == Unwrap(from_timestamp_millis(product.val), 157) IN
         IF naive_date.tag = "Panic" THEN naive_date
         ELSE Value(Some(naive_date.val))

-----------------------------------------------------------------------------
(* Strings and the inputs of the model.                                    *)

\* String's Ord: the lexicographic order of the bytes.
StrLt(a, b) ==
    \E i \in 1..Len(b) :
        /\ i - 1 <= Len(a)
        /\ \A j \in 1..(i-1) : a[j] = b[j]
        /\ (i > Len(a) \/ a[i] < b[i])

\* The users "ab" and "b": "ab" sorts first although it is the longer name.
Users == { <<97, 98>>, <<98>> }
RatingKeys == { "101" }
MediaTypes == { "Movie", "Tv" }

\* i64::MAX = 9223372036854775807
I64Max == <<65535, 65535, 65535, 32767>>
\* -9000000000000: its product by 1000 fits an i64 and is no NaiveDateTime.
FarPast == <<28672, 34354, 63440, 65535>>
Dates == { FarPast, I64(100), I64(200), I64Max }
NearDates == { I64(100), I64(200) }

Percents == { 10, 90 }
Durations == { 1800 }
\* draw, records_total, records_filtered of a response
Draws == { 1 }
RecordCounts == { <<7, 5>> }

\* The items of a movie response (responses::HistoryMovie).
MovieItems ==
    [user : Users, date : Dates, duration : Durations, percent_complete : Percents]

\* The items of a show response (responses::HistoryItem): every date with both
\* indices present, and the near dates with either index present or absent.
\* A page mixes the two.
TvItemsDated ==
    [user : Users, date : Dates, duration : Durations, percent_complete : Percents,
     media_index : {Some(2)}, parent_media_index : {Some(1)}]
TvItemsIndexed ==
    [user : Users, date : NearDates, duration : Durations, percent_complete : {10},
     media_index : {None, Some(2)}, parent_media_index : {None, Some(1)}]

\* A response whose data is the given sequence of items.
Page(draw, counts, data) ==
    [draw |-> draw, records_total |-> counts[1], records_filtered |-> counts[2],
     data |-> data]

-----------------------------------------------------------------------------
(* get_item_history                                                         *)

\* Variant of history_movie_to_history: records_filtered is filled from
\* records_total.
history_movie_to_history_total_twice(history) ==
    [draw |-> history.draw,
     records_total |-> history.records_total,
     records_filtered |-> history.records_total,
     data |-> [i \in 1..Len(history.data) |->
                [user |-> history.data[i].user,
                 date |-> history.data[i].date,
                 duration |-> history.data[i].duration,
                 percent_complete |-> history.data[i].percent_complete,
                 media_index |-> None,
                 parent_media_index |-> None]]]

\* fn history_movie_to_history(history: HistoryMovie) -> History
history_movie_to_history(history) ==
    [draw |-> history.draw,
     records_total |-> history.records_total,
     records_filtered |-> history.records_filtered,
     data |-> [i \in 1..Len(history.data) |->
                [user |-> history.data[i].user,
                 date |-> history.data[i].date,
                 duration |-> history.data[i].duration,
                 percent_complete |-> history.data[i].percent_complete,
                 media_index |-> None,
                 parent_media_index |-> None]]]

\* The parameters of the get_history request.
HistoryParams(rating_key, media_type) ==
    IF media_type = "Movie"
    THEN << <<"rating_key", rating_key>> >>
    ELSE << <<"grandparent_rating_key", rating_key>> >>

-----------------------------------------------------------------------------
(* get_item_watches: the fold                                               *)

\* Variant of FoldStep: an equal date replaces the entry too (<=).
FoldStepLastWins(user_latest_watch, data, current) ==
    LET user == data[current].user IN
    IF user \in DOMAIN user_latest_watch
    THEN IF I64Le(data[user_latest_watch[user]].date, data[current].date)
         THEN [user_latest_watch EXCEPT ![user] = current]
         ELSE user_latest_watch
    ELSE [u \in DOMAIN user_latest_watch \cup {user} |->
            IF u = user THEN current ELSE user_latest_watch[u]]

\* Variant of FoldStep: the comparison is turned round (>).
FoldStepKeepsOldest(user_latest_watch, data, current) ==
    LET user == data[current].user IN
    IF user \in DOMAIN user_latest_watch
    THEN IF I64Lt(data[current].date, data[user_latest_watch[user]].date)
         THEN [user_latest_watch EXCEPT ![user] = current]
         ELSE user_latest_watch
    ELSE [u \in DOMAIN user_latest_watch \cup {user} |->
            IF u = user THEN current ELSE user_latest_watch[u]]

\* Variant of FoldStep: or_insert puts the item under the key of the first
\* item of the page.
FoldStepFirstKey(user_latest_watch, data, current) ==
    LET user == data[1].user IN
    IF user \in DOMAIN user_latest_watch
    THEN IF I64Lt(data[user_latest_watch[user]].date, data[current].date)
         THEN [user_latest_watch EXCEPT ![user] = current]
         ELSE user_latest_watch
    ELSE [u \in DOMAIN user_latest_watch \cup {user} |->
            IF u = user THEN current ELSE user_latest_watch[u]]

\* A &HistoryItem is the position of the item in history.data.
\* entry(&current_watch.user).and_modify(..).or_insert(current_watch)
FoldStep(user_latest_watch, data, current) ==
    LET user == data[current].user IN
    IF user \in DOMAIN user_latest_watch
    THEN IF I64Lt(data[user_latest_watch[user]].date, data[current].date)
         THEN [user_latest_watch EXCEPT ![user] = current]
         ELSE user_latest_watch
    ELSE [u \in DOMAIN user_latest_watch \cup {user} |->
            IF u = user THEN current ELSE user_latest_watch[u]]

RECURSIVE FoldFrom(_, _, _)
FoldFrom(user_latest_watch, data, current) ==
    IF current > Len(data) THEN user_latest_watch
    ELSE FoldFrom(FoldStep(user_latest_watch, data, current), data, current + 1)

\* history.data.iter().fold(BTreeMap::new(), ..)
LatestUserHistory(data) == FoldFrom(<<>>, data, 1)

-----------------------------------------------------------------------------
(* WatchHistory                                                             *)

\* Variant of Ascending: the keys in descending order.
RECURSIVE Descending(_)
Descending(keys) ==
    IF keys = {} THEN <<>>
    ELSE LET greatest == CHOOSE k \in keys : \A other \in keys \ {k} : StrLt(other, k)
         IN  <<greatest>> \o Descending(keys \ {greatest})

\* BTreeMap::iter: the keys in ascending order.
RECURSIVE Ascending(_)
Ascending(keys) ==
    IF keys = {} THEN <<>>
    ELSE LET least == CHOOSE k \in keys : \A other \in keys \ {k} : StrLt(k, other)
         IN  <<least>> \o Ascending(keys \ {least})

\* Iterator::collect over outcomes: the first panic ends the iteration.
Collect(outcomes) ==
    IF \E i \in 1..Len(outcomes) : outcomes[i].tag = "Panic"
    THEN outcomes[CHOOSE i \in 1..Len(outcomes) :
                    /\ outcomes[i].tag = "Panic"
                    /\ \A j \in 1..(i-1) : outcomes[j].tag /= "Panic"]
    ELSE Value([i \in 1..Len(outcomes) |-> outcomes[i].val])

\* unix_seconds_to_date(watch.date).expect(&format!(..)), at the line of the
\* expect: 39 in create_movie_history, 58 in create_tv_history.
LastWatched(watch, rating_key, overflow_checks, line) ==
    LET date == unix_seconds_to_date(watch.date, overflow_checks) IN
    IF date.tag = "Panic" THEN date
    ELSE Expect(date.val, ExpectMessage(rating_key), line)

\* Variant of UserMovieWatch: progress is filled from duration.
UserMovieWatchDuration(user, movie_watch, rating_key, overflow_checks) ==
    LET last_watched == LastWatched(movie_watch, rating_key, overflow_checks, 39) IN
    IF last_watched.tag = "Panic" THEN last_watched
    ELSE Value([display_name |-> user,
                last_watched |-> last_watched.val,
                progress |-> movie_watch.duration])

\* UserMovieWatch { display_name, last_watched, progress }
UserMovieWatch(user, movie_watch, rating_key, overflow_checks) ==
    LET last_watched == LastWatched(movie_watch, rating_key, overflow_checks, 39) IN
    IF last_watched.tag = "Panic" THEN last_watched
    ELSE Value([display_name |-> user,
                last_watched |-> last_watched.val,
                progress |-> movie_watch.percent_complete])

\* Variant of UserEpisodeWatch: unwrap_or(0) in place of unwrap().
UserEpisodeWatchDefaulted(user, tv_watch, rating_key, overflow_checks) ==
    LET last_watched == LastWatched(tv_watch, rating_key, overflow_checks, 58)
        season == IF IsSome(tv_watch.parent_media_index)
                  THEN tv_watch.parent_media_index[1] ELSE 0
        episode == IF IsSome(tv_watch.media_index)
                   THEN tv_watch.media_index[1] ELSE 0
    IN  IF last_watched.tag = "Panic" THEN last_watched
        ELSE Value([display_name |-> user,
                    last_watched |-> last_watched.val,
                    progress |-> tv_watch.percent_complete,
                    season |-> season,
                    episode |-> episode])

\* UserEpisodeWatch { display_name, last_watched, progress, season, episode }
UserEpisodeWatch(user, tv_watch, rating_key, overflow_checks) ==
    LET last_watched == LastWatched(tv_watch, rating_key, overflow_checks, 58)
        season == Unwrap(tv_watch.parent_media_index, 63)
        episode == Unwrap(tv_watch.media_index, 64)
    IN  IF last_watched.tag = "Panic" THEN last_watched
        ELSE IF season.tag = "Panic" THEN season
        ELSE IF episode.tag = "Panic" THEN episode
        ELSE Value([display_name |-> user,
                    last_watched |-> last_watched.val,
                    progress |-> tv_watch.percent_complete,
                    season |-> season.val,
                    episode |-> episode.val])

\* fn create_movie_history(user_watches, rating_key) -> Self
create_movie_history(user_watches, rating_key, overflow_checks) ==
    LET users == Ascending(DOMAIN user_watches)
        watches == Collect([i \in 1..Len(users) |->
                     UserMovieWatch(users[i], user_watches[users[i]],
                                    rating_key, overflow_checks)])
    IN  IF watches.tag = "Panic" THEN watches
        ELSE Value([variant |-> "Movie", rating_key |-> rating_key,
                    watches |-> watches.val])

\* fn create_tv_history(user_watches, rating_key) -> Self
create_tv_history(user_watches, rating_key, overflow_checks) ==
    LET users == Ascending(DOMAIN user_watches)
        watches == Collect([i \in 1..Len(users) |->
                     UserEpisodeWatch(users[i], user_watches[users[i]],
                                      rating_key, overflow_checks)])
    IN  IF watches.tag = "Panic" THEN watches
        ELSE Value([variant |-> "TvShow", rating_key |-> rating_key,
                    watches |-> watches.val])

\* Variant of from_user_watches: the arms of the match are exchanged.
from_user_watches_exchanged(user_watches, media_type, rating_key, overflow_checks) ==
    IF media_type = "Movie"
    THEN create_tv_history(user_watches, rating_key, overflow_checks)
    ELSE create_movie_history(user_watches, rating_key, overflow_checks)

\* fn from_user_watches(user_watches, media_type, rating_key) -> Self
from_user_watches(user_watches, media_type, rating_key, overflow_checks) ==
    IF media_type = "Movie"
    THEN create_movie_history(user_watches, rating_key, overflow_checks)
    ELSE create_tv_history(user_watches, rating_key, overflow_checks)

\* The items the references of the map point at.
Deref(user_latest_watch, data) ==
    [u \in DOMAIN user_latest_watch |-> data[user_latest_watch[u]]]

\* Result<WatchHistory>, or the panic that unwinds out of the call.
Ok(v) == [tag |-> "Ok", val |-> v]
Err(e) == [tag |-> "Err", err |-> e]

-----------------------------------------------------------------------------
(* The calls.                                                               *)

VARIABLES
    pc,                   \* "idle", "fetching", "fetched" or "done"
    rating_key,           \* the arguments of the call
    media_type,
    request,              \* the parameters sent with get_history
    response,             \* the body api::get_obj returned
    history,              \* what get_item_history returned
    latest_user_history,  \* the map the fold built
    outcome               \* what the call ended with

vars == <<pc, rating_key, media_type, request, response, history,
          latest_user_history, outcome>>

NoCall == [tag |-> "None"]
NoPage == [draw |-> 0, records_total |-> 0, records_filtered |-> 0, data |-> <<>>]

Init ==
    /\ pc = "idle"
    /\ rating_key = ""
    /\ media_type = "Movie"
    /\ request = <<>>
    /\ response = NoPage
    /\ history = NoPage
    /\ latest_user_history = <<>>
    /\ outcome = NoCall

\* get_item_watches(rating_key, media_type) up to the await of the request.
Call ==
    /\ pc = "idle"
    /\ \E rk \in RatingKeys, mt \in MediaTypes :
        /\ rating_key' = rk
        /\ media_type' = mt
        /\ request' = HistoryParams(rk, mt)
    /\ pc' = "fetching"
    /\ response' = NoPage
    /\ history' = NoPage
    /\ latest_user_history' = <<>>
    /\ outcome' = NoCall

\* get_item_history, the movie branch.
GetItemHistoryMovie ==
    /\ pc = "fetching"
    /\ media_type = "Movie"
    /\ \E draw \in Draws, counts \in RecordCounts, len \in 0..MaxEvents :
        \E data \in [1..len -> MovieItems] :
            /\ response' = Page(draw, counts, data)
            /\ history' = history_movie_to_history(response')
    /\ pc' = "fetched"
    /\ UNCHANGED <<rating_key, media_type, request, latest_user_history, outcome>>

\* get_item_history, the show branch.
GetItemHistoryTv ==
    /\ pc = "fetching"
    /\ media_type /= "Movie"
    /\ \E draw \in Draws, counts \in RecordCounts, len \in 0..MaxEvents :
        \E data \in [1..len -> TvItemsDated \cup TvItemsIndexed] :
            /\ response' = Page(draw, counts, data)
            /\ history' = response'
    /\ pc' = "fetched"
    /\ UNCHANGED <<rating_key, media_type, request, latest_user_history, outcome>>

\* api::get_obj fails: both ? operators hand the error to the caller.
GetItemHistoryErr ==
    /\ pc = "fetching"
    /\ outcome' = Err("get_obj")
    /\ pc' = "done"
    /\ UNCHANGED <<rating_key, media_type, request, response, history,
                   latest_user_history>>

\* get_item_watches after the await: the fold and from_user_watches.  The
\* build decides whether an overflowing multiplication panics or wraps.
Aggregate ==
    /\ pc = "fetched"
    /\ latest_user_history' = LatestUserHistory(history.data)
    /\ \E overflow_checks \in BOOLEAN :
        LET watch_history ==
              from_user_watches(Deref(latest_user_history', history.data),
                                media_type, rating_key, overflow_checks)
        IN  outcome' = IF watch_history.tag = "Panic" THEN watch_history
                       ELSE Ok(watch_history.val)
    /\ pc' = "done"
    /\ UNCHANGED <<rating_key, media_type, request, response, history>>

\* The call is over; the next one starts from nothing of this one.
Return ==
    /\ pc = "done"
    /\ pc' = "idle"
    /\ rating_key' = ""
    /\ media_type' = "Movie"
    /\ request' = <<>>
    /\ response' = NoPage
    /\ history' = NoPage
    /\ latest_user_history' = <<>>
    /\ outcome' = NoCall

Next ==
    \/ Call
    \/ GetItemHistoryMovie
    \/ GetItemHistoryTv
    \/ GetItemHistoryErr
    \/ Aggregate
    \/ Return

Spec == Init /\ [][Next]_vars

-----------------------------------------------------------------------------
(* What the properties speak of.                                           *)

\* get_item_history returned a page.
Fetched == pc = "fetched" \/ (pc = "done" /\ outcome.tag /= "Err")
\* get_item_watches ran on a fetched page to its end, a result or a panic.
Finished == pc = "done" /\ outcome.tag /= "Err"
\* get_item_watches returned a result.
Returned == pc = "done" /\ outcome.tag = "Ok"

Events == history.data
Summaries == outcome.val.watches
InputUsers == { Events[i].user : i \in 1..Len(Events) }
EventsOf(user) == { i \in 1..Len(Events) : Events[i].user = user }

\* The first, in the order of the page, of the events of the user that no
\* event of the user is later than.
FirstLatest(user) ==
    CHOOSE i \in EventsOf(user) :
        /\ \A j \in EventsOf(user) : I64Le(Events[j].date, Events[i].date)
        /\ \A j \in EventsOf(user) : j < i => I64Lt(Events[j].date, Events[i].date)

\* The event the fold retained for the user.
Retained(user) == Events[latest_user_history[user]]

MissingIndex(event) ==
    ~IsSome(event.parent_media_index) \/ ~IsSome(event.media_index)

\* The date is a count of seconds with no NaiveDateTime: the exact product
\* by 1000 is no i64, or is outside the range of NaiveDateTime.
Unconvertible(seconds) ==
    \/ MulOverflows(seconds, MillisPerSecond)
    \/ ~IsSome(from_timestamp_millis(Low64(WideMul(seconds, MillisPerSecond))))

-----------------------------------------------------------------------------
(* Properties.                                                              *)

\* C1: when get_item_watches returns a result, the event retained for a user
\* is of that user and no event of the user in the page is later, and the
\* summary of the user is made from it: last_watched is the i64 count of
\* milliseconds of its date and progress is its percent_complete.
C1_RetainedIsLatestAndProjected ==
    Returned =>
        \A user \in DOMAIN latest_user_history :
            /\ latest_user_history[user] \in EventsOf(user)
            /\ \A j \in EventsOf(user) :
                  I64Le(Events[j].date, Retained(user).date)
            /\ \E k \in 1..Len(Summaries) :
                  /\ Summaries[k].display_name = user
                  /\ Summaries[k].progress = Retained(user).percent_complete
                  /\ Summaries[k].last_watched =
                        Low64(WideMul(Retained(user).date, MillisPerSecond))

\* A result for a user whose later event stands after an earlier one with
\* another percent_complete.
C1_Witness ==
    /\ Returned
    /\ \E user \in DOMAIN latest_user_history :
        \E j \in EventsOf(user) :
            /\ j < latest_user_history[user]
            /\ I64Lt(Events[j].date, Retained(user).date)
            /\ Events[j].percent_complete /= Retained(user).percent_complete

\* C2: the result holds one summary for every user of the page, none for any
\* other user, and no two summaries with the same display_name.
C2_OneSummaryPerUser ==
    Returned =>
        /\ { Summaries[k].display_name : k \in 1..Len(Summaries) } = InputUsers
        /\ \A k1, k2 \in 1..Len(Summaries) :
              Summaries[k1].display_name = Summaries[k2].display_name => k1 = k2

\* A result for a page of three events of two users.
C2_Witness ==
    /\ Returned
    /\ Len(Events) >= 3
    /\ Cardinality(InputUsers) = 2

\* C3: the fold retains, for every user of the page, the first event among
\* those of the user with the latest date.
C3_FirstOfTiesRetained ==
    Finished =>
        /\ DOMAIN latest_user_history = InputUsers
        /\ \A user \in InputUsers : latest_user_history[user] = FirstLatest(user)

\* Two different events of a user with the same, latest date, and an event
\* of another user between them.
C3_Witness ==
    /\ Finished
    /\ \E i, j, k \in 1..Len(Events) :
        /\ i < j /\ j < k
        /\ Events[i].user = Events[k].user
        /\ Events[j].user /= Events[i].user
        /\ Events[i].date = Events[k].date
        /\ Events[i] /= Events[k]
        /\ latest_user_history[Events[i].user] = i

\* C4: the summaries stand in strictly ascending order of display_name and
\* their names are the users of the page; the sequence of names is then the
\* one ascending arrangement of that set, the same for every order of the
\* events.
C4_AscendingByUser ==
    Returned =>
        /\ \A k \in 1..(Len(Summaries) - 1) :
              StrLt(Summaries[k].display_name, Summaries[k+1].display_name)
        /\ { Summaries[k].display_name : k \in 1..Len(Summaries) } = InputUsers

\* A result whose order is not the order of the page: the first event is of
\* the user that sorts last.
C4_Witness ==
    /\ Returned
    /\ Len(Summaries) = 2
    /\ Events[1].user = Summaries[2].display_name

\* C5: a Movie call returns only the Movie variant, whose watches have no
\* season and no episode, and never panics at the unwrap of an index; a Tv
\* call that returns returns the TvShow variant, whose season and episode are
\* the indices of the retained events.
C5_VariantMatchesMediaType ==
    /\ (Finished /\ media_type = "Movie") =>
          /\ outcome.tag = "Panic" => outcome.line \notin {63, 64}
          /\ outcome.tag = "Ok" =>
                /\ outcome.val.variant = "Movie"
                /\ \A k \in 1..Len(Summaries) :
                      DOMAIN Summaries[k] = {"display_name", "last_watched", "progress"}
    /\ (Returned /\ media_type = "Tv") =>
          /\ outcome.val.variant = "TvShow"
          /\ \A k \in 1..Len(Summaries) :
                LET event == Events[FirstLatest(Summaries[k].display_name)] IN
                /\ Some(Summaries[k].season) = event.parent_media_index
                /\ Some(Summaries[k].episode) = event.media_index

\* A Movie call that returned summaries, from events without indices.
C5_Witness ==
    /\ Returned
    /\ media_type = "Movie"
    /\ Len(Summaries) = 2
    /\ \A i \in 1..Len(Events) : MissingIndex(Events[i])

\* C6: a Tv call whose retained event of some user lacks an index ends in a
\* panic, with no result.
C6_MissingIndexFails ==
    (/\ Finished
     /\ media_type = "Tv"
     /\ \E user \in InputUsers : MissingIndex(Events[FirstLatest(user)]))
    => outcome.tag = "Panic"

\* A Tv call that panicked at an unwrap of an index, where another user's
\* retained event has both.
C6_Witness ==
    /\ Finished
    /\ media_type = "Tv"
    /\ outcome.tag = "Panic"
    /\ outcome.line \in {63, 64}
    /\ \E user \in InputUsers : ~MissingIndex(Events[FirstLatest(user)])

\* C7: a failure the core raises carries the rating key of the item.
C7_FailureCarriesRatingKey ==
    (pc = "done" /\ outcome.tag = "Panic") =>
        \E i \in 1..Len(outcome.msg) : outcome.msg[i] = rating_key

\* C8: the last_watched of every summary is the instant exactly date seconds
\* after the epoch: the product by 1000 fits an i64 and is the count kept.
C8_ExactInstant ==
    Returned =>
        \A k \in 1..Len(Summaries) :
            LET seconds == Retained(Summaries[k].display_name).date IN
            /\ ~MulOverflows(seconds, MillisPerSecond)
            /\ Summaries[k].last_watched = Low64(WideMul(seconds, MillisPerSecond))

\* C9: the history of a Movie call has the draw, records_total and
\* records_filtered of the response, as many items in the same order with the
\* same user, date and percent_complete, and no index; the history of a Tv
\* call is the response.
C9_NormalizerProjects ==
    /\ (Fetched /\ media_type = "Movie") =>
          /\ history.draw = response.draw
          /\ history.records_total = response.records_total
          /\ history.records_filtered = response.records_filtered
          /\ Len(history.data) = Len(response.data)
          /\ \A i \in 1..Len(response.data) :
                /\ history.data[i].user = response.data[i].user
                /\ history.data[i].date = response.data[i].date
                /\ history.data[i].percent_complete = response.data[i].percent_complete
                /\ history.data[i].media_index = None
                /\ history.data[i].parent_media_index = None
    /\ (Fetched /\ media_type = "Tv") => history = response

\* A Movie history of several different items.
C9_Witness ==
    /\ pc = "fetched"
    /\ media_type = "Movie"
    /\ Len(response.data) >= 2
    /\ response.data[1] /= response.data[2]

\* C10: on a fetched page the call panics only if the retained event of some
\* user has an unconvertible date or, in a Tv call, lacks an index; a page
\* with no event gives a result with no summary.
C10_FailsOnlyOnRetained ==
    Finished =>
        /\ outcome.tag = "Panic" =>
              \E user \in InputUsers :
                  LET event == Events[FirstLatest(user)] IN
                  \/ Unconvertible(event.date)
                  \/ media_type = "Tv" /\ MissingIndex(event)
        /\ Len(Events) = 0 => (outcome.tag = "Ok" /\ Len(Summaries) = 0)

\* A result for a page with a superseded event that has an unconvertible date
\* or, in a Tv call, lacks an index.
C10_Witness ==
    /\ Returned
    /\ \E i \in 1..Len(Events) :
        /\ i /= latest_user_history[Events[i].user]
        /\ \/ Unconvertible(Events[i].date)
           \/ media_type = "Tv" /\ MissingIndex(Events[i])

====
